---- MODULE Spec2Model ----
(***************************************************************************)
(* A model of the rody block container (src/src/lib.rs, src/src/error.rs): *)
(* the Collector build phase (add), the layout written by press, and the   *)
(* readers that reinterpret a byte buffer as a Header or a RunDesc.        *)
(*                                                                         *)
(* A u32 or usize value is a string of base-256 digits, most significant   *)
(* digit first (U32: 4 digits, Usize: 8 digits), so that the 32-bit and    *)
(* 64-bit arithmetic of the code is computed at its real width.            *)
(***************************************************************************)
EXTENDS Integers, Sequences, FiniteSets, TLC

VARIABLES
    \* the build a run of the program was compiled as
    target_endian,      \* "little" | "big": byte order of the target
    overflow_checks,    \* TRUE: integer overflow panics (debug); FALSE: it wraps
    \* RunDesc::validate called on its own
    vdesc,              \* the RunDesc validate is called on
    vlen,               \* the buffer_length argument (usize)
    vresult,            \* "none" before the call, then the outcome
    \* the readers called on an arbitrary buffer
    mem,                \* the bytes in memory from the buffer's first byte on
    buflen,             \* the buffer's length: the buffer is mem[1..buflen]
    mapped,             \* how many bytes of mem are readable (>= buflen)
    hresult,            \* outcome of Header::from_buf, or NoResult
    dresult,            \* outcome of RunDesc::from_buf, or NoResult
    \* Header::new, write_out, from_buf in sequence
    rc,                 \* the run count given to Header::new (usize)
    rtbytes,            \* what write_out wrote
    rtresult,           \* outcome of from_buf on rtbytes, or NoResult
    \* the Collector, the sink press writes to, and a reader of what was written
    collector,          \* [max_size, shelves]: shelves maps a block length to its Shelf
    calls,              \* history: every add call so far, [data, result]
    phase,              \* "build", then "pressed", then "read"
    out,                \* the bytes press wrote to the sink
    press_result,       \* what press returned, or NoResult
    rheader,            \* outcome of Header::from_map on out
    rdescs,             \* outcomes of RunDesc::from_map on out, one per run
    rslices             \* outcomes of RunDesc::from_buf on out's tail at each descriptor

buildVars == <<target_endian, overflow_checks>>
validateVars == <<vdesc, vlen, vresult>>
decodeVars == <<mem, buflen, mapped, hresult, dresult, rc, rtbytes, rtresult>>
collectorVars == <<collector, calls, phase, out, press_result, rheader, rdescs, rslices>>
vars == <<buildVars, validateVars, decodeVars, collectorVars>>

------------------------------------------------------------------------------
(* The build, and the parts of the state a specification does not use *)

Builds == [endian : {"little", "big"}, checks : BOOLEAN]

InitBuild ==
    \E b \in Builds :
        /\ target_endian = b.endian
        /\ overflow_checks = b.checks

NoResult == [status |-> "none"]

IdleValidate ==
    /\ vdesc = [block_size |-> << 0, 0, 0, 0 >>, count |-> << 0, 0, 0, 0 >>, offset |-> << 0, 0, 0, 0 >>]
    /\ vlen = << 0, 0, 0, 0, 0, 0, 0, 0 >>
    /\ vresult = "done"

IdleDecode ==
    /\ mem = << >>
    /\ buflen = 0
    /\ mapped = 0
    /\ hresult = [status |-> "idle"]
    /\ dresult = [status |-> "idle"]
    /\ rc = << 0, 0, 0, 0, 0, 0, 0, 0 >>
    /\ rtbytes = << >>
    /\ rtresult = [status |-> "idle"]

IdleCollector ==
    /\ collector = [max_size |-> 0, shelves |-> << >>]
    /\ calls = << >>
    /\ phase = "idle"
    /\ out = << >>
    /\ press_result = [status |-> "idle"]
    /\ rheader = [status |-> "idle"]
    /\ rdescs = << >>
    /\ rslices = << >>

------------------------------------------------------------------------------
(* Fixed-width integers *)

Reverse(s) == [i \in 1..Len(s) |-> s[Len(s) + 1 - i]]

Zeros(k) == [i \in 1..k |-> 0]

RECURSIVE Digits(_, _)
\* the k low base-256 digits of the natural n, most significant first
Digits(n, k) == IF k = 0 THEN << >> ELSE Digits(n \div 256, k - 1) \o << n % 256 >>

U32(n) == Digits(n, 4)

Usize(n) == Digits(n, 8)

\* `x as u32` of a usize: the low 32 bits
AsU32(d) == SubSeq(d, Len(d) - 3, Len(d))

\* zero-extension to k digits
Widen(d, k) == Zeros(k - Len(d)) \o d

RECURSIVE AddDigits(_, _, _, _)
\* a + b + c over the digits i..1 of two strings of equal length: Len + 1 digits,
\* the first being the carry out
AddDigits(a, b, i, c) ==
    IF i = 0 THEN << c >>
    ELSE LET s == a[i] + b[i] + c
         IN  AddDigits(a, b, i - 1, s \div 256) \o << s % 256 >>

RECURSIVE ColSum(_, _, _, _)
\* sum of la[i+1] * lb[c-i+1] over i..Len-1 (la, lb least significant first)
ColSum(la, lb, c, i) ==
    IF i >= Len(la) THEN 0
    ELSE (IF c - i >= 0 /\ c - i < Len(lb) THEN la[i + 1] * lb[c - i + 1] ELSE 0)
         + ColSum(la, lb, c, i + 1)

RECURSIVE MulCols(_, _, _, _)
\* the digits c.. of la * lb, least significant first
MulCols(la, lb, c, carry) ==
    IF c = Len(la) + Len(lb) THEN << >>
    ELSE LET s == ColSum(la, lb, c, 0) + carry
         IN  << s % 256 >> \o MulCols(la, lb, c + 1, s \div 256)

\* the full product of two digit strings: Len(a) + Len(b) digits
MulDigits(a, b) == Reverse(MulCols(Reverse(a), Reverse(b), 0, 0))

RECURSIVE LessFrom(_, _, _)
LessFrom(a, b, i) ==
    IF i > Len(a) THEN FALSE
    ELSE IF a[i] # b[i] THEN a[i] < b[i]
    ELSE LessFrom(a, b, i + 1)

\* a < b for two digit strings of equal length
Less(a, b) == LessFrom(a, b, 1)

\* u32 * u32: the wrapped product and whether it overflowed
MulU32(a, b) ==
    LET p == MulDigits(a, b)
    IN  [value |-> AsU32(p), overflow |-> SubSeq(p, 1, 4) # Zeros(4)]

\* u32 + u32: the wrapped sum and whether it overflowed
AddU32(a, b) ==
    LET s == AddDigits(a, b, 4, 0)
    IN  [value |-> Tail(s), overflow |-> s[1] # 0]

------------------------------------------------------------------------------
(* RunDesc::validate *)

\* RunDesc::validate(&self, buffer_length): "Ok", "Internal" (the overrun
\* error, built from a String) or "Panic" (arithmetic overflow when the build
\* checks overflow)
RunDesc_validate(self, buffer_length, checks) ==
    LET total_size == MulU32(self.block_size, self.count)
        blen == AsU32(buffer_length)
        end == AddU32(self.offset, total_size.value)
    IN  IF checks /\ total_size.overflow THEN "Panic"
        ELSE IF checks /\ end.overflow THEN "Panic"
        ELSE IF Less(blen, end.value) THEN "Internal"
        ELSE "Ok"

------------------------------------------------------------------------------
(* Header and RunDesc: encoding and the readers *)

FILE_MAGIC == 1437217723

VERSION == 1

HeaderSize == 12

RunDescSize == 12

\* u32::to_le_bytes: least significant byte first
to_le_bytes(v) == Reverse(v)

\* the packed field at byte offset off of a struct the pointer to mem was cast
\* to, read in the target's byte order; << >> when the bytes are not readable
ReadField(m, off, readable, endian) ==
    IF off + 4 > readable THEN << >>
    ELSE LET b == SubSeq(m, off + 1, off + 4)
         IN  IF endian = "little" THEN Reverse(b) ELSE b

\* Header::new(blocklist_size: usize)
Header_new(blocklist_size) ==
    [magic |-> U32(FILE_MAGIC), version |-> U32(VERSION),
     blocklist_size |-> AsU32(blocklist_size)]

\* Header::write_out: the bytes handed to the writer
Header_write_out(self) ==
    to_le_bytes(self.magic) \o to_le_bytes(self.version)
        \o to_le_bytes(self.blocklist_size)

\* RunDesc::write_out
RunDesc_write_out(self) ==
    to_le_bytes(self.block_size) \o to_le_bytes(self.count)
        \o to_le_bytes(self.offset)

\* validate with the two checks in the other order
Header_validate_VersionFirst(self) ==
    IF self.version = << >> THEN "Segv"
    ELSE IF self.version # U32(VERSION) THEN "InvalidVersion"
    ELSE IF self.magic = << >> THEN "Segv"
    ELSE IF self.magic # U32(FILE_MAGIC) THEN "BadMagic"
    ELSE "Ok"

\* Header::validate; "Segv" when a field it reads is not readable memory
Header_validate(self) ==
    IF self.magic = << >> THEN "Segv"
    ELSE IF self.magic # U32(FILE_MAGIC) THEN "BadMagic"
    ELSE IF self.version = << >> THEN "Segv"
    ELSE IF self.version # U32(VERSION) THEN "InvalidVersion"
    ELSE "Ok"

\* Header::from_buf on the buffer m[1..len], readable bytes of m following it:
\* the slice pointer is cast to *const Header with no length check, and a
\* slice pointer is never null, so validate always runs. oob: validate read a
\* byte at or beyond the buffer's length
Header_from_buf(m, len, readable, endian) ==
    LET header == [magic |-> ReadField(m, 0, readable, endian),
                   version |-> ReadField(m, 4, readable, endian),
                   blocklist_size |-> ReadField(m, 8, readable, endian)]
        touched == IF header.magic = U32(FILE_MAGIC) THEN 8 ELSE 4
    IN  [status |-> Header_validate(header), header |-> header,
         oob |-> touched > len]

\* Header::from_map
Header_from_map(map, endian) == Header_from_buf(map, Len(map), Len(map), endian)

\* RunDesc::from_buf: as Header::from_buf, then validate against buf.len()
RunDesc_from_buf(m, len, readable, endian, checks) ==
    LET blockdesc == [block_size |-> ReadField(m, 0, readable, endian),
                      count |-> ReadField(m, 4, readable, endian),
                      offset |-> ReadField(m, 8, readable, endian)]
    IN  [status |-> IF readable < RunDescSize THEN "Segv"
                    ELSE RunDesc_validate(blockdesc, Usize(len), checks),
         desc |-> blockdesc,
         oob |-> RunDescSize > len]

\* RunDesc::from_map(map, offset): offset is not used
RunDesc_from_map(map, offset, endian, checks) ==
    RunDesc_from_buf(map, Len(map), Len(map), endian, checks)

MagicInputs ==
    { U32(FILE_MAGIC), << 85, 170, 51, 186 >>, << 187, 51, 170, 85 >>, U32(0) }

VersionInputs == { U32(0), U32(1), U32(2), << 1, 0, 0, 0 >> }

CountInputs == { U32(0), U32(3), U32(50), << 255, 255, 255, 255 >> }

BufLenInputs == { 0, 3, 4, 8, 11, 12, 14 }

RunCountInputs ==
    { Usize(0), Usize(3), Usize(65536), << 0, 0, 0, 1, 0, 0, 0, 49 >> }

InitDecode ==
    /\ InitBuild
    /\ IdleValidate
    /\ IdleCollector
    /\ \E a \in MagicInputs, b \in VersionInputs, c \in CountInputs :
          mem = to_le_bytes(a) \o to_le_bytes(b) \o to_le_bytes(c) \o << 0, 0 >>
    /\ buflen \in BufLenInputs
    /\ mapped \in {buflen, 14}
    /\ hresult = NoResult
    /\ dresult = NoResult
    /\ rc \in RunCountInputs
    /\ rtbytes = << >>
    /\ rtresult = NoResult

DecodeHeader ==
    /\ hresult = NoResult
    /\ hresult' = Header_from_buf(mem, buflen, mapped, target_endian)
    /\ UNCHANGED <<buildVars, validateVars, collectorVars, mem, buflen, mapped, dresult, rc,
                   rtbytes, rtresult>>

DecodeRunDesc ==
    /\ dresult = NoResult
    /\ dresult' = RunDesc_from_buf(mem, buflen, mapped, target_endian,
                                   overflow_checks)
    /\ UNCHANGED <<buildVars, validateVars, collectorVars, mem, buflen, mapped, hresult, rc,
                   rtbytes, rtresult>>

\* tests::header_map_test: write_out of a new Header, then from_map on what
\* was written
HeaderRoundTrip ==
    /\ rtresult = NoResult
    /\ LET output == Header_write_out(Header_new(rc))
       IN  /\ rtbytes' = output
           /\ rtresult' = Header_from_map(output, target_endian)
    /\ UNCHANGED <<buildVars, validateVars, collectorVars, mem, buflen, mapped, hresult,
                   dresult, rc>>

NextDecode ==
    \/ DecodeHeader
    \/ DecodeRunDesc
    \/ HeaderRoundTrip

SpecDecode == InitDecode /\ [][NextDecode]_vars

------------------------------------------------------------------------------
(* RunDesc::validate on its own *)

\* 2^16, 2^31 and 2^32 - 1 as u32; 2^32 and 2^32 + 49 as usize
U32Inputs ==
    { U32(0), U32(1), U32(5), U32(10), U32(50), U32(65536),
      << 128, 0, 0, 0 >>, << 255, 255, 255, 255 >> }

UsizeInputs ==
    { Usize(0), Usize(49), Usize(50), Usize(65536),
      << 0, 0, 0, 0, 255, 255, 255, 255 >>,
      << 0, 0, 0, 1, 0, 0, 0, 0 >>, << 0, 0, 0, 1, 0, 0, 0, 49 >> }

InitValidate ==
    /\ InitBuild
    /\ IdleDecode
    /\ IdleCollector
    /\ vdesc \in [block_size : U32Inputs, count : U32Inputs, offset : U32Inputs]
    /\ vlen \in UsizeInputs
    /\ vresult = "none"

Validate ==
    /\ vresult = "none"
    /\ vresult' = RunDesc_validate(vdesc, vlen, overflow_checks)
    /\ UNCHANGED <<buildVars, vdesc, vlen, decodeVars, collectorVars>>

NextValidate == Validate

SpecValidate == InitValidate /\ [][NextValidate]_vars

------------------------------------------------------------------------------
(* Block, Shelf, Collector *)

DEFAULT_MAX_SIZE == 40

HashSize == 4

MaxAdds == 4

Ok == [status |-> "Ok", arg |-> 0]

TooLarge(len) == [status |-> "TooLarge", arg |-> len]

Panic == [status |-> "Panic", arg |-> 0]

\* Block::new
Block_new(data) == [hash |-> 0, data |-> data]

\* Block::size
Block_size(self) == HashSize + Len(self.data)

\* Shelf::new
Shelf_new(block_size) == [block_size |-> block_size, blocks |-> << >>]

\* add_block putting the new block first
Shelf_add_block_Front(self, block) ==
    IF self.block_size # Len(block.data)
    THEN [panic |-> TRUE, shelf |-> self]
    ELSE [panic |-> FALSE, shelf |-> [self EXCEPT !.blocks = << block >> \o @]]

\* Shelf::add_block: the shelf afterwards, and whether assert_eq! panicked
Shelf_add_block(self, block) ==
    IF self.block_size # Len(block.data)
    THEN [panic |-> TRUE, shelf |-> self]
    ELSE [panic |-> FALSE, shelf |-> [self EXCEPT !.blocks = Append(@, block)]]

\* create_run_desc counting bytes instead of blocks
Shelf_create_run_desc_Bytes(self, offset) ==
    [block_size |-> AsU32(Usize(self.block_size)),
     count |-> AsU32(Usize(Len(self.blocks) * self.block_size)),
     offset |-> AsU32(Usize(offset))]

\* Shelf::create_run_desc(offset: usize): the three `as u32` casts
Shelf_create_run_desc(self, offset) ==
    [block_size |-> AsU32(Usize(self.block_size)),
     count |-> AsU32(Usize(Len(self.blocks))),
     offset |-> AsU32(Usize(offset))]

\* Shelf::bulk_size
Shelf_bulk_size(self) ==
    IF self.blocks = << >> THEN 0
    ELSE Len(self.blocks) * Block_size(self.blocks[1])

\* Collector::new
Collector_new == [max_size |-> DEFAULT_MAX_SIZE, shelves |-> << >>]

\* add rejecting a block of exactly max_size
Collector_add_Strict(self, data) ==
    LET block_len == Len(data)
    IN  IF block_len >= self.max_size
        THEN [collector |-> self, result |-> TooLarge(block_len)]
        ELSE LET added == Shelf_add_block(
                              IF block_len \in DOMAIN self.shelves
                              THEN self.shelves[block_len]
                              ELSE Shelf_new(block_len),
                              Block_new(data))
                 shelves == [k \in DOMAIN self.shelves \cup {block_len} |->
                                IF k = block_len THEN added.shelf
                                ELSE self.shelves[k]]
             IN  [collector |-> [self EXCEPT !.shelves = shelves],
                  result |-> IF added.panic THEN Panic ELSE Ok]

\* Collector::add: the collector afterwards and what the call returned
Collector_add(self, data) ==
    LET block_len == Len(data)
    IN  IF block_len > self.max_size
        THEN [collector |-> self, result |-> TooLarge(block_len)]
        ELSE LET block == Block_new(data)
                 entry == IF block_len \in DOMAIN self.shelves
                          THEN self.shelves[block_len]
                          ELSE Shelf_new(block_len)
                 added == Shelf_add_block(entry, block)
                 shelves == [k \in DOMAIN self.shelves \cup {block_len} |->
                                IF k = block_len THEN added.shelf
                                ELSE self.shelves[k]]
             IN  [collector |-> [self EXCEPT !.shelves = shelves],
                  result |-> IF added.panic THEN Panic ELSE Ok]

RECURSIVE SortedKeys(_)
\* the keys of a BTreeMap in iteration order: ascending
SortedKeys(S) ==
    IF S = {} THEN << >>
    ELSE LET m == CHOOSE x \in S : \A y \in S : x <= y
         IN  << m >> \o SortedKeys(S \ {m})

RECURSIVE PressRuns(_, _, _, _)
\* the first loop of press from the i-th shelf on: the descriptor bytes written
PressRuns(shelves, keys, i, bulk_offset) ==
    IF i > Len(keys) THEN << >>
    ELSE LET shelf == shelves[keys[i]]
             run_desc == Shelf_create_run_desc(shelf, bulk_offset)
         IN  RunDesc_write_out(run_desc)
                 \o PressRuns(shelves, keys, i + 1,
                              bulk_offset + Shelf_bulk_size(shelf))

\* Collector::press on a sink that accepts every write: the bytes written.
\* The second loop over the shelves has an empty body and writes nothing
Collector_press(self) ==
    LET keys == SortedKeys(DOMAIN self.shelves)
        header == Header_new(Usize(Len(keys)))
    IN  Header_write_out(header)
            \o PressRuns(self.shelves, keys, 1, Len(keys) * RunDescSize)

RECURSIVE ToInt(_)
\* the value of a digit string (below 2^31)
ToInt(d) == IF d = << >> THEN 0 ELSE ToInt(SubSeq(d, 1, Len(d) - 1)) * 256 + d[Len(d)]

\* block payloads given to add: length len, filled from seed
Payload(len, seed) == [i \in 1..len |-> (seed * 16 + i) % 256]

\* lengths 5, 7, 10, max_size and max_size + 1; two different blocks of length 5
AddInputs ==
    { Payload(5, 1), Payload(5, 2), Payload(7, 1), Payload(10, 1),
      Payload(DEFAULT_MAX_SIZE, 1), Payload(DEFAULT_MAX_SIZE + 1, 1) }

Init ==
    /\ InitBuild
    /\ IdleValidate
    /\ IdleDecode
    /\ collector = Collector_new
    /\ calls = << >>
    /\ phase = "build"
    /\ out = << >>
    /\ press_result = NoResult
    /\ rheader = NoResult
    /\ rdescs = << >>
    /\ rslices = << >>

Add ==
    /\ phase = "build"
    /\ Len(calls) < MaxAdds
    /\ \E data \in AddInputs :
          LET r == Collector_add(collector, data)
          IN  /\ collector' = r.collector
              /\ calls' = Append(calls, [data |-> data, result |-> r.result])
    /\ UNCHANGED <<buildVars, validateVars, decodeVars, phase, out,
                   press_result, rheader, rdescs, rslices>>

Press ==
    /\ phase = "build"
    /\ out' = out \o Collector_press(collector)
    /\ press_result' = Ok
    /\ phase' = "pressed"
    /\ UNCHANGED <<buildVars, validateVars, decodeVars, collector, calls,
                   rheader, rdescs, rslices>>

\* a reader of the written buffer: the Header, then, when it decodes, each of
\* its blocklist_size descriptors by from_map with the descriptor's offset and
\* by from_buf (TryFrom<&[u8]>) on the slice starting at that offset
ReadBack ==
    /\ phase = "pressed"
    /\ phase' = "read"
    /\ LET h == Header_from_map(out, target_endian)
           n == IF h.status = "Ok" THEN ToInt(h.header.blocklist_size) ELSE 0
           at(i) == HeaderSize + (i - 1) * RunDescSize
           slice(i) == SubSeq(out, at(i) + 1, Len(out))
       IN  /\ rheader' = h
           /\ rdescs' = [i \in 1..n |->
                            RunDesc_from_map(out, at(i), target_endian,
                                             overflow_checks)]
           /\ rslices' = [i \in 1..n |->
                             RunDesc_from_buf(slice(i), Len(slice(i)),
                                              Len(slice(i)), target_endian,
                                              overflow_checks)]
    /\ UNCHANGED <<buildVars, validateVars, decodeVars, collector, calls, out,
                   press_result>>

Next ==
    \/ Add
    \/ Press
    \/ ReadBack

Spec == Init /\ [][Next]_vars

------------------------------------------------------------------------------
(* Claims *)

\* u32::from_le_bytes of the four bytes at offset off of what press wrote:
\* the format's own reading of a field
OutU32(off) == Reverse(SubSeq(out, off + 1, off + 4))

OutHeader ==
    [magic |-> OutU32(0), version |-> OutU32(4), blocklist_size |-> OutU32(8)]

\* the i-th run descriptor of the written table (i from 1)
OutDesc(i) ==
    LET at == HeaderSize + (i - 1) * RunDescSize
    IN  [block_size |-> OutU32(at), count |-> OutU32(at + 4),
         offset |-> OutU32(at + 8)]

IsAccepted(c) == c.result.status = "Ok"

\* the payloads of the accepted add calls, in call order
AcceptedData ==
    LET acc == SelectSeq(calls, IsAccepted)
    IN  [i \in 1..Len(acc) |-> acc[i].data]

AcceptedLens == { Len(AcceptedData[i]) : i \in 1..Len(AcceptedData) }

\* the accepted payloads of length L, in call order
AcceptedOfLen(L) ==
    LET HasLen(d) == Len(d) = L
    IN  SelectSeq(AcceptedData, HasLen)

RECURSIVE Concat(_)
Concat(ss) == IF ss = << >> THEN << >> ELSE Head(ss) \o Concat(Tail(ss))

\* the data region the format describes: per length ascending, the accepted
\* payloads of that length back to back in call order
ExpectedData ==
    LET lens == SortedKeys(AcceptedLens)
    IN  Concat([i \in 1..Len(lens) |-> Concat(AcceptedOfLen(lens[i]))])

DataStart == HeaderSize + Cardinality(AcceptedLens) * RunDescSize

\* C1: after press, the bytes after the Header and the run descriptors are
\* the payloads of all accumulated blocks, grouped by length ascending and in
\* insertion order within a length.
C1_DataRegion ==
    phase # "build" => SubSeq(out, DataStart + 1, Len(out)) = ExpectedData

\* C2: run descriptor offsets are measured from the start of the data region
\* and tile it: the first is 0, each later one is the previous offset plus the
\* previous run's block_size * count.
C2_OffsetsTile ==
    phase # "build" =>
        \A i \in 1..Cardinality(AcceptedLens) :
            ToInt(OutDesc(i).offset) =
                IF i = 1 THEN 0
                ELSE ToInt(OutDesc(i - 1).offset)
                     + ToInt(OutDesc(i - 1).block_size) * ToInt(OutDesc(i - 1).count)

\* C3: the written Header's run count is the number of Shelves, that many
\* descriptors follow it, in strictly ascending block_size order, the i-th
\* carrying the block size and block count of the i-th smallest Shelf.
C3_RunTable ==
    phase # "build" =>
        LET keys == SortedKeys(DOMAIN collector.shelves)
            n == Cardinality(DOMAIN collector.shelves)
        IN  /\ Len(out) >= HeaderSize + n * RunDescSize
            /\ OutHeader.blocklist_size = U32(n)
            /\ \A i \in 1..n :
                  /\ keys[i] \in DOMAIN collector.shelves
                  /\ OutDesc(i).block_size = U32(keys[i])
                  /\ OutDesc(i).count = U32(Len(collector.shelves[keys[i]].blocks))
            /\ \A i \in 1..n : \A j \in 1..n :
                  i < j => ToInt(OutDesc(i).block_size) < ToInt(OutDesc(j).block_size)

C3_Witness ==
    /\ phase = "pressed"
    /\ Cardinality(DOMAIN collector.shelves) = 3
    /\ \E L \in DOMAIN collector.shelves : Len(collector.shelves[L].blocks) = 2

\* C6: re-reading what press wrote succeeds end to end: the Header decodes,
\* and the descriptor decoded at each descriptor offset is the one press wrote
\* there and passes its overrun check. Stated for a little-endian target,
\* where the reader's byte order is the one press writes.
C6_ReadBack ==
    (phase = "read" /\ target_endian = "little") =>
        /\ rheader.status = "Ok"
        /\ Len(rdescs) = Cardinality(AcceptedLens)
        /\ \A i \in 1..Len(rdescs) :
              /\ rdescs[i].status = "Ok"
              /\ rdescs[i].desc = OutDesc(i)

C7_Inv ==
    /\ DOMAIN collector.shelves = AcceptedLens
    /\ \A i \in 1..Len(calls) : calls[i].result.status # "Panic"
    /\ \A L \in DOMAIN collector.shelves :
          LET shelf == collector.shelves[L]
          IN  /\ shelf.block_size = L
              /\ \A i \in 1..Len(shelf.blocks) : Len(shelf.blocks[i].data) = L
              /\ [i \in 1..Len(shelf.blocks) |-> shelf.blocks[i].data]
                     = AcceptedOfLen(L)

C7_NoShrink ==
    \A L \in DOMAIN collector.shelves :
        /\ L \in DOMAIN collector'.shelves
        /\ Len(collector'.shelves[L].blocks) >= Len(collector.shelves[L].blocks)

\* C7: the Collector holds a Shelf keyed L exactly when a block of length L
\* was accepted; it has block_size L and holds exactly the accepted blocks of
\* length L in arrival order; add_block's assertion never fails and no Shelf
\* ever shrinks.
C7_Shelves == [](C7_Inv) /\ [][C7_NoShrink]_vars

C7_Witness ==
    /\ [i \in 1..Len(calls) |-> Len(calls[i].data)] = << 5, 7, 5, 10 >>
    /\ DOMAIN collector.shelves = {5, 7, 10}
    /\ Len(collector.shelves[5].blocks) = 2
    /\ collector.shelves[5].blocks[1] # collector.shelves[5].blocks[2]
    /\ Len(collector.shelves[7].blocks) = 1
    /\ Len(collector.shelves[10].blocks) = 1

\* the Shelves as a function of the accepted calls alone
ExpectedShelves ==
    [L \in AcceptedLens |->
        LET d == AcceptedOfLen(L)
        IN  [block_size |-> L,
             blocks |-> [i \in 1..Len(d) |-> [hash |-> 0, data |-> d[i]]]]]

C8_Step ==
    Len(calls') = Len(calls) + 1 =>
        LET c == calls'[Len(calls')]
            len == Len(c.data)
        IN  /\ len > DEFAULT_MAX_SIZE =>
                  /\ c.result = [status |-> "TooLarge", arg |-> len]
                  /\ collector' = collector
            /\ len <= DEFAULT_MAX_SIZE => c.result.status = "Ok"
            /\ collector'.shelves = ExpectedShelves'

\* C8: add of a block longer than max_size (40) returns TooLarge(len) and
\* leaves the Collector unchanged; a block of length max_size is accepted;
\* and the Shelves are always what the accepted calls alone produce, whatever
\* calls failed in between.
C8_TooLarge == [][C8_Step]_vars

C8_Witness ==
    \E i \in 1..Len(calls) : \E j \in 1..Len(calls) :
        /\ i < j
        /\ calls[i].result = [status |-> "TooLarge", arg |-> 41]
        /\ calls[j].result.status = "Ok"
        /\ Len(calls[j].data) = DEFAULT_MAX_SIZE
        /\ collector.shelves[DEFAULT_MAX_SIZE].blocks # << >>

\* the field at byte offset off of the decoded buffer, as the target reads it
BufField(off) ==
    LET b == SubSeq(mem, off + 1, off + 4)
    IN  IF target_endian = "little" THEN Reverse(b) ELSE b

\* C9: on a buffer of at least 12 bytes Header decode succeeds exactly when
\* magic = 0x55AA33BB and version = 1, fails with BadMagic whenever the magic
\* differs (whatever the version), and with InvalidVersion when the magic is
\* right and the version is not 1; the third field plays no part.
C9_HeaderValidate ==
    (hresult.status \notin {"none", "idle"} /\ buflen >= HeaderSize) =>
        LET magicOk == BufField(0) = << 85, 170, 51, 187 >>
            versionOk == BufField(4) = << 0, 0, 0, 1 >>
        IN  /\ hresult.status = "Ok" <=> (magicOk /\ versionOk)
            /\ ~magicOk => hresult.status = "BadMagic"
            /\ (magicOk /\ ~versionOk) => hresult.status = "InvalidVersion"

C9_Witness ==
    /\ buflen >= HeaderSize
    /\ hresult.status = "BadMagic"
    /\ BufField(0) = << 85, 170, 51, 186 >>
    /\ BufField(4) = << 0, 0, 0, 2 >>

\* C5: on a buffer shorter than 12 bytes Header decode and RunDesc decode
\* return an Internal error and read no byte at or beyond the buffer's length.
C5_ShortBuffer ==
    /\ (hresult.status \notin {"none", "idle"} /\ buflen < HeaderSize) =>
           (hresult.status = "Internal" /\ ~hresult.oob)
    /\ (dresult.status \notin {"none", "idle"} /\ buflen < RunDescSize) =>
           (dresult.status = "Internal" /\ ~dresult.oob)

\* C10: the 12 bytes write_out produces for Header::new(run_count) (magic,
\* version, run_count, little-endian) decode to a header that passes validate
\* and has the same magic, version and run_count.
C10_HeaderRoundTrip ==
    rtresult.status \notin {"none", "idle"} =>
        /\ Len(rtbytes) = HeaderSize
        /\ rtresult.status = "Ok"
        /\ rtresult.header.magic = << 85, 170, 51, 187 >>
        /\ rtresult.header.version = << 0, 0, 0, 1 >>
        /\ rtresult.header.blocklist_size = SubSeq(rc, 5, 8)

\* the overrun condition in exact arithmetic: offset + block_size * count > buffer_length
ExactOverrun(d, len) ==
    Less(Widen(len, 9),
         AddDigits(Widen(d.offset, 8), MulDigits(d.block_size, d.count), 8, 0))

\* C4: validate returns an error exactly when offset + block_size * count
\* exceeds buffer_length in exact arithmetic, and never panics.
C4_ValidateExact ==
    vresult \notin {"none", "done"} =>
        /\ vresult \in {"Ok", "Internal"}
        /\ (vresult = "Internal") <=> ExactOverrun(vdesc, vlen)

====
